---- MODULE Spec2Model ----
(***************************************************************************)
(* Model of pipelines/tasks/build_database.py: selection of the years to   *)
(* refresh (process_sise_eaux_dataset) and the yearly download / extract / *)
(* load of the three SISE-Eaux files into the duckdb tables                *)
(* (download_extract_insert_yearly_SISE_data).                             *)
(*                                                                         *)
(* A Python string is a sequence of its characters; the year strings are   *)
(* sequences of decimal digits, so "2024" is <<2,0,2,4>>.                  *)
(***************************************************************************)
EXTENDS Integers, Sequences, FiniteSets, TLC

\* ---- bounds of the exploration -------------------------------------------
MaxRuns == 2        \* calls of process_sise_eaux_dataset
MaxFaults == 1      \* environment faults (network, bad archive, missing file)
MaxVersion == 2     \* versions of the data the remote may publish
MaxCustomLen == 2   \* length of the custom_years list

\* ---- year strings --------------------------------------------------------
Y2016 == <<2, 0, 1, 6>>
Y2017 == <<2, 0, 1, 7>>
Y2018 == <<2, 0, 1, 8>>
Y2019 == <<2, 0, 1, 9>>
Y2020 == <<2, 0, 2, 0>>
Y2021 == <<2, 0, 2, 1>>
Y2022 == <<2, 0, 2, 2>>
Y2023 == <<2, 0, 2, 3>>
Y2024 == <<2, 0, 2, 4>>
Y1999 == <<1, 9, 9, 9>>
NoYear == << >>

\* the list of process_sise_eaux_dataset
available_years ==
    <<Y2016, Y2017, Y2018, Y2019, Y2020, Y2021, Y2022, Y2023, Y2024>>

\* the dict of get_yearly_dataset_infos
dis_files_info_by_year ==
    (Y2024 :> [id |-> "84a67a3b-08a7-4001-98e6-231c74a98139", name |-> "dis-2024.zip"]) @@
    (Y2023 :> [id |-> "c89dec4a-d985-447c-a102-75ba814c398e", name |-> "dis-2023.zip"]) @@
    (Y2022 :> [id |-> "a97b6074-c4dd-4ef2-8922-b0cf04dbff9a", name |-> "dis-2022.zip"]) @@
    (Y2021 :> [id |-> "d2b432cc-3761-44d3-8e66-48bc15300bb5", name |-> "dis-2021.zip"]) @@
    (Y2020 :> [id |-> "a6cb4fea-ef8c-47a5-acb3-14e49ccad801", name |-> "dis-2020.zip"]) @@
    (Y2019 :> [id |-> "861f2a7d-024c-4bf0-968b-9e3069d9de07", name |-> "dis-2019.zip"]) @@
    (Y2018 :> [id |-> "0513b3c0-dc18-468d-a969-b3508f079792", name |-> "dis-2018.zip"]) @@
    (Y2017 :> [id |-> "5785427b-3167-49fa-a581-aef835f0fb04", name |-> "dis-2017.zip"]) @@
    (Y2016 :> [id |-> "483c84dd-7912-483b-b96f-4fa5e1d8651f", name |-> "dis-2016.zip"])

CatalogYears == DOMAIN dis_files_info_by_year

\* dis_files_info_by_year[year] raises KeyError on a key the dict lacks
get_yearly_dataset_infos_raises(y) == y \notin CatalogYears
\* variant: another insertion order
FILES_Reordered ==
    << [kind |-> "prelevements", filename_prefix |-> "DIS_PLV_",     table_name |-> "sise_prelevements"],
       [kind |-> "communes",     filename_prefix |-> "DIS_COM_UDI_", table_name |-> "sise_communes"],
       [kind |-> "resultats",    filename_prefix |-> "DIS_RESULT_",  table_name |-> "sise_resultats"] >>

\* the FILES dict, in insertion order (the order of FILES.values())
FILES ==
    << [kind |-> "communes",     filename_prefix |-> "DIS_COM_UDI_", table_name |-> "sise_communes"],
       [kind |-> "prelevements", filename_prefix |-> "DIS_PLV_",     table_name |-> "sise_prelevements"],
       [kind |-> "resultats",    filename_prefix |-> "DIS_RESULT_",  table_name |-> "sise_resultats"] >>

FileKinds == {FILES[i].kind : i \in 1..Len(FILES)}
TableNames == {FILES[i].table_name : i \in 1..Len(FILES)}

\* ---- helpers -------------------------------------------------------------
Range(s) == {s[i] : i \in 1..Len(s)}

RECURSIVE ParseInt(_)
\* the value of the decimal literal the f-string writes into the query
ParseInt(s) ==
    IF Len(s) = 0 THEN 0
    ELSE 10 * ParseInt(SubSeq(s, 1, Len(s) - 1)) + s[Len(s)]

\* CAST({year} as INTEGER)
CastYear(y) == ParseInt(y)

\* list(a_set): the elements once each, in an order the code does not fix
ListsOfSet(S) ==
    {s \in [1..Cardinality(S) -> S] : Range(s) = S}

\* ---- inputs --------------------------------------------------------------
RefreshTypes == {"all", "last", "custom"}
CandidateYears == {Y2024, Y1999}
\* the years whose download may go wrong
FaultYears == {Y2017, Y2024}
\* the environment may still inject a fault into the download of year y
MayFault(y, n) == y \in FaultYears /\ n < MaxFaults
\* custom_years: None, or a list of year strings
CustomYearsInputs ==
    {[isNone |-> TRUE, list |-> << >>]} \cup
    {[isNone |-> FALSE, list |-> l] :
        l \in UNION {[1..k -> CandidateYears] : k \in 0..MaxCustomLen}}
\* variant: only None is taken as unspecified
Truthy_NotNone(cy) == ~cy.isNone

\* truth value of `if custom_years:`
Truthy(cy) == ~cy.isNone /\ Len(cy.list) > 0
\* variant: the list is not intersected with available_years
CustomSelection_NoIntersect(cy) == ListsOfSet(Range(cy.list))

\* list(set(custom_years).intersection(available_years))
CustomSelection(cy) == ListsOfSet(Range(cy.list) \cap Range(available_years))

\* the items `for year in years_to_update` yields: the elements of a list,
\* the one-character strings of a str
IterLen(obj) == Len(obj.val)
IterItem(obj, i) == IF obj.type = "str" THEN <<obj.val[i]>> ELSE obj.val[i]

\* ---- files and tables ----------------------------------------------------
\* A published file is identified by the version of the data it holds;
\* 0 stands for "no such file".
FileHeader(f) == IF f > 0 THEN <<"c1">> ELSE <<"c1", "c2">>
Abs(f) == IF f < 0 THEN -f ELSE f
FileRecords(f) == [i \in 1..Abs(f) |-> Abs(f)]

NoTable == [exists |-> FALSE, columns |-> << >>, rows |-> << >>]
NoZip == [state |-> "absent", version |-> 0, missing |-> "none", wide |-> FALSE]
NoDir == [exists |-> FALSE, files |-> [k \in FileKinds |-> 0]]
\* variant: an absent file reads as an empty one
read_csv_raises_never(f) == FALSE

\* read_csv(filepath, header=true, delim=',') raises when the file is absent
read_csv_raises(f) == f = 0

\* SELECT *, CAST({year} as INTEGER) AS annee_prelevement FROM read_csv(...)
SelectColumns(f) == Append(FileHeader(f), "annee_prelevement")
\* variant: the year column is not filled from the year
SelectRows_NoYear(f, y) ==
    [i \in 1..Len(FileRecords(f)) |->
        [data |-> FileRecords(f)[i], annee_prelevement |-> 0]]

SelectRows(f, y) ==
    [i \in 1..Len(FileRecords(f)) |->
        [data |-> FileRecords(f)[i], annee_prelevement |-> CastYear(y)]]

\* check_table_existence
check_table_existence(d, t) == d[t].exists
\* variants: the DELETE keeps the rows of the year; has no WHERE clause;
\* compares with <=
DeleteRows_Keep(tab, y) == tab
DeleteRows_AllYears(tab, y) == [tab EXCEPT !.rows = << >>]
DeleteRows_UpToYear(tab, y) ==
    [tab EXCEPT !.rows = SelectSeq(tab.rows, LAMBDA r : r.annee_prelevement > CastYear(y))]

\* DELETE FROM t WHERE annee_prelevement = CAST({year} as INTEGER)
DeleteRows(tab, y) ==
    [tab EXCEPT !.rows = SelectSeq(tab.rows, LAMBDA r : r.annee_prelevement # CastYear(y))]

\* INSERT INTO t SELECT ... is rejected when the select list does not fit
\* the columns of the table
InsertRaises(tab, f) == Len(SelectColumns(f)) # Len(tab.columns)

InsertRows(tab, f, y) == [tab EXCEPT !.rows = tab.rows \o SelectRows(f, y)]

\* CREATE TABLE t AS SELECT ...
CreateTable(f, y) ==
    [exists |-> TRUE, columns |-> SelectColumns(f), rows |-> SelectRows(f, y)]

RowsFor(tab, n) == SelectSeq(tab.rows, LAMBDA r : r.annee_prelevement = n)

\* clear_cache() of pipelines/tasks/_common.py: empties the cache folder
clear_cache_zips == [y \in CatalogYears |-> NoZip]
clear_cache_dirs == [y \in CatalogYears |-> NoDir]

\* ---- state ---------------------------------------------------------------
VARIABLES
    pc,               \* position of the caller / of the two functions
    refresh_type,     \* argument of the current call
    custom_years,     \* argument of the current call
    years_to_update,  \* local of process_sise_eaux_dataset
    idx,              \* position of the for loop over years_to_update
    year,             \* argument of download_extract_insert_yearly_SISE_data
    fileIdx,          \* position of the for loop over FILES.values()
    error,            \* exception that left process_sise_eaux_dataset
    db,               \* the duckdb database: table name -> table
    zips,             \* CACHE_FOLDER/dis-YEAR.zip
    dirs,             \* CACHE_FOLDER/raw_data_YEAR
    remoteVersion,    \* version of the data the remote serves during a run
    runs,             \* calls made so far
    faults,           \* environment faults so far
    calls,            \* history: years passed to the yearly load in this call
    steps,            \* history: steps of the current yearly load
    dbAtCall,         \* history: db when the current yearly load was called
    parsed,           \* history: rows read from each file by the current load
    latest            \* history: rows of the latest load of a year, if it succeeded

vars == <<pc, refresh_type, custom_years, years_to_update, idx, year, fileIdx,
          error, db, zips, dirs, remoteVersion, runs, faults,
          calls, steps, dbAtCall, parsed, latest>>

histVars == <<calls, steps, dbAtCall, parsed, latest>>
callVars == <<refresh_type, custom_years, years_to_update, remoteVersion, runs>>

NoParsed == [t \in TableNames |-> << >>]
NoLatest == [ok |-> FALSE, rows |-> NoParsed]
NoList == [type |-> "list", val |-> << >>]

Init ==
    /\ pc = "idle"
    /\ refresh_type = "all"
    /\ custom_years = [isNone |-> TRUE, list |-> << >>]
    /\ years_to_update = NoList
    /\ idx = 1
    /\ year = NoYear
    /\ fileIdx = 1
    /\ error = "none"
    /\ db = [t \in TableNames |-> NoTable]
    /\ zips = clear_cache_zips
    /\ dirs = clear_cache_dirs
    /\ remoteVersion = 1
    /\ runs = 0
    /\ faults = 0
    /\ calls = << >>
    /\ steps = << >>
    /\ dbAtCall = [t \in TableNames |-> NoTable]
    /\ parsed = NoParsed
    /\ latest = [y \in CatalogYears |-> NoLatest]

\* ---- process_sise_eaux_dataset ------------------------------------------
\* the call and the selection of years_to_update (lines 146-168)
SelectYears(rt, cy, lst) ==
    /\ pc = "idle"
    /\ runs < MaxRuns
    /\ runs' = runs + 1
    /\ refresh_type' = rt
    /\ custom_years' = cy
    /\ \E v \in remoteVersion..MaxVersion : remoteVersion' = v
    /\ idx' = 1
    /\ calls' = << >>
    /\ IF rt = "all"
         THEN /\ years_to_update' = [type |-> "list", val |-> available_years]
              /\ pc' = "loop" /\ error' = "none"
       ELSE IF rt = "last"
         THEN /\ years_to_update' = [type |-> "str", val |-> available_years[Len(available_years)]]
              /\ pc' = "loop" /\ error' = "none"
       ELSE IF Truthy(cy)
         THEN /\ years_to_update' = [type |-> "list", val |-> lst]
              /\ pc' = "loop" /\ error' = "none"
         ELSE /\ years_to_update' = NoList
              /\ pc' = "failed" /\ error' = "ValueError"
    /\ UNCHANGED <<year, fileIdx, db, zips, dirs, faults, steps, dbAtCall, parsed, latest>>

\* custom_years keeps its default, None, unless refresh_type is "custom"
Call ==
    \E rt \in RefreshTypes :
        \E cy \in (IF rt = "custom" THEN CustomYearsInputs
                   ELSE {[isNone |-> TRUE, list |-> << >>]}) :
            \E lst \in (IF rt = "custom" /\ Truthy(cy) THEN CustomSelection(cy) ELSE {<< >>}) :
                SelectYears(rt, cy, lst)

\* the for loop is exhausted: return True (lines 170, 173)
LoopEnd ==
    /\ pc = "loop"
    /\ idx > IterLen(years_to_update)
    /\ pc' = "done"
    /\ UNCHANGED <<callVars, idx, year, fileIdx, error, db, zips, dirs, faults, histVars>>

\* the loop calls the yearly load with the next item (lines 170-171, 50-73)
CallYearly ==
    /\ pc = "loop"
    /\ idx <= IterLen(years_to_update)
    /\ LET y == IterItem(years_to_update, idx) IN
        /\ year' = y
        /\ calls' = Append(calls, y)
        /\ steps' = << >>
        /\ dbAtCall' = db
        /\ parsed' = NoParsed
        /\ fileIdx' = 1
        /\ IF get_yearly_dataset_infos_raises(y)
             THEN /\ pc' = "failed" /\ error' = "KeyError"
                  /\ latest' = latest
             ELSE /\ pc' = "fetch" /\ error' = error
                  /\ latest' = [latest EXCEPT ![y] = NoLatest]
    /\ UNCHANGED <<callVars, idx, db, zips, dirs, faults>>

\* ---- download_extract_insert_yearly_SISE_data ---------------------------
\* requests.get and the write of ZIP_FILE (lines 76-79)
FetchOk ==
    /\ pc = "fetch"
    /\ \E m \in {"none"} \cup FileKinds, w \in BOOLEAN :
        /\ (m # "none" \/ w) => MayFault(year, faults)
        /\ (m # "none") => ~w
        /\ faults' = IF m = "none" /\ ~w THEN faults ELSE faults + 1
        /\ zips' = [zips EXCEPT ![year] =
                        [state |-> "ok", version |-> remoteVersion, missing |-> m, wide |-> w]]
    /\ steps' = Append(steps, "fetch")
    /\ pc' = "extract"
    /\ UNCHANGED <<callVars, idx, year, fileIdx, error, db, dirs,
                   calls, dbAtCall, parsed, latest>>

\* the body served is not the archive (an error page): it is written as is
FetchBadBody ==
    /\ pc = "fetch"
    /\ MayFault(year, faults)
    /\ faults' = faults + 1
    /\ zips' = [zips EXCEPT ![year] =
                    [state |-> "corrupt", version |-> 0, missing |-> "none", wide |-> FALSE]]
    /\ steps' = Append(steps, "fetch")
    /\ pc' = "extract"
    /\ UNCHANGED <<callVars, idx, year, fileIdx, error, db, dirs,
                   calls, dbAtCall, parsed, latest>>

\* requests.get raises
FetchRaises ==
    /\ pc = "fetch"
    /\ MayFault(year, faults)
    /\ faults' = faults + 1
    /\ pc' = "failed"
    /\ error' = "ConnectionError"
    /\ UNCHANGED <<callVars, idx, year, fileIdx, db, zips, dirs, histVars>>

\* ZipFile(ZIP_FILE).extractall(EXTRACT_FOLDER) (lines 82-83): the entries of
\* the archive are written over what the folder holds
Extract ==
    /\ pc = "extract"
    /\ zips[year].state = "ok"
    /\ dirs' = [dirs EXCEPT ![year] =
                  [exists |-> TRUE,
                   files |-> [k \in FileKinds |->
                                IF zips[year].missing = k THEN dirs[year].files[k]
                                ELSE IF zips[year].wide THEN -zips[year].version
                                ELSE zips[year].version]]]
    /\ steps' = Append(steps, "extract")
    /\ pc' = "load"
    /\ UNCHANGED <<callVars, idx, year, fileIdx, error, db, zips, faults,
                   calls, dbAtCall, parsed, latest>>

\* ZipFile raises BadZipFile
ExtractRaises ==
    /\ pc = "extract"
    /\ zips[year].state = "corrupt"
    /\ pc' = "failed"
    /\ error' = "BadZipFile"
    /\ UNCHANGED <<callVars, idx, year, fileIdx, db, zips, dirs, faults, histVars>>

\* one iteration of the loop over FILES.values() (lines 88-113)
CurFile == FILES[fileIdx]
CurContent == dirs[year].files[CurFile.kind]
\* variant: the DELETE runs in the transaction of the INSERT that fails
AfterDelete_Skip(d, t, y) == d[t]

\* the table after the DELETE, when the table exists
AfterDelete(d, t, y) ==
    IF check_table_existence(d, t) THEN DeleteRows(d[t], y) ELSE d[t]

LoadRaises(d, t, f) ==
    \/ read_csv_raises(f)
    \/ check_table_existence(d, t) /\ InsertRaises(d[t], f)

LoadFile ==
    /\ pc = "load"
    /\ fileIdx <= Len(FILES)
    /\ ~LoadRaises(db, CurFile.table_name, CurContent)
    /\ LET t == CurFile.table_name
           f == CurContent
       IN /\ db' = [db EXCEPT ![t] =
                      IF check_table_existence(db, t)
                      THEN InsertRows(AfterDelete(db, t, year), f, year)
                      ELSE CreateTable(f, year)]
          /\ parsed' = [parsed EXCEPT ![t] = SelectRows(f, year)]
          /\ steps' = Append(steps, CurFile.kind)
    /\ fileIdx' = fileIdx + 1
    /\ pc' = IF fileIdx = Len(FILES) THEN "cleanup" ELSE "load"
    /\ UNCHANGED <<callVars, idx, year, error, zips, dirs, faults,
                   calls, dbAtCall, latest>>

\* the second conn.execute raises: the DELETE, if any, has been executed
LoadFileRaises ==
    /\ pc = "load"
    /\ fileIdx <= Len(FILES)
    /\ LoadRaises(db, CurFile.table_name, CurContent)
    /\ db' = [db EXCEPT ![CurFile.table_name] = AfterDelete(db, CurFile.table_name, year)]
    /\ pc' = "failed"
    /\ error' = IF read_csv_raises(CurContent) THEN "IOException" ELSE "BinderException"
    /\ UNCHANGED <<callVars, idx, year, fileIdx, zips, dirs, faults, histVars>>

\* conn.close(), clear_cache(), return True (lines 115-120)
Cleanup ==
    /\ pc = "cleanup"
    /\ zips' = clear_cache_zips
    /\ dirs' = clear_cache_dirs
    /\ steps' = Append(steps, "cleanup")
    /\ latest' = [latest EXCEPT ![year] = [ok |-> TRUE, rows |-> parsed]]
    /\ idx' = idx + 1
    /\ pc' = "loop"
    /\ dbAtCall' = db
    /\ parsed' = NoParsed
    /\ UNCHANGED <<callVars, year, fileIdx, error, db, faults, calls>>

\* the caller has the result or the exception and may call again
Return ==
    /\ pc \in {"done", "failed"}
    /\ pc' = "idle"
    /\ error' = "none"
    /\ refresh_type' = "all"
    /\ custom_years' = [isNone |-> TRUE, list |-> << >>]
    /\ year' = NoYear
    /\ years_to_update' = NoList
    /\ idx' = 1
    /\ fileIdx' = 1
    /\ calls' = << >>
    /\ steps' = << >>
    /\ dbAtCall' = db
    /\ parsed' = NoParsed
    /\ UNCHANGED <<remoteVersion, runs, db, zips, dirs, faults, latest>>

Next ==
    \/ Call
    \/ LoopEnd
    \/ CallYearly
    \/ FetchOk
    \/ FetchBadBody
    \/ FetchRaises
    \/ Extract
    \/ ExtractRaises
    \/ LoadFile
    \/ LoadFileRaises
    \/ Cleanup
    \/ Return

Spec == Init /\ [][Next]_vars

\* ---- properties -----------------------------------------------------------
\* the supported years and their numbers, written out
SupportedYears == {Y2016, Y2017, Y2018, Y2019, Y2020, Y2021, Y2022, Y2023, Y2024}
YearNumber ==
    (Y2016 :> 2016) @@ (Y2017 :> 2017) @@ (Y2018 :> 2018) @@ (Y2019 :> 2019) @@
    (Y2020 :> 2020) @@ (Y2021 :> 2021) @@ (Y2022 :> 2022) @@ (Y2023 :> 2023) @@
    (Y2024 :> 2024)

\* the i-th file of FILES has been loaded by the yearly load in progress
LoadedNow(i) == pc \in {"load", "cleanup", "failed"} /\ i < fileIdx
\* the rows a fresh parse of the file of kind k of the current year gives
FreshRows(k) ==
    [j \in 1..Len(FileRecords(dirs[year].files[k])) |->
        [data |-> FileRecords(dirs[year].files[k])[j],
         annee_prelevement |-> YearNumber[year]]]
HeldRows(d, t, y) == RowsFor(d[t], YearNumber[y])
LoadErrors == {"IOException", "BinderException"}

\* C1: when the table exists already, after the load of year Y into it the
\* rows with annee_prelevement = Y are exactly the rows of the freshly
\* parsed file, each once, however many loads of Y came before.
C1_IdempotentReload ==
    \A i \in 1..Len(FILES) :
        (LoadedNow(i) /\ dbAtCall[FILES[i].table_name].exists) =>
            HeldRows(db, FILES[i].table_name, year) = FreshRows(FILES[i].kind)

\* C1 witness: a year is loaded again, with the same file contents, into a
\* table that held its rows.
C1_Witness ==
    /\ LoadedNow(1)
    /\ dbAtCall[FILES[1].table_name].exists
    /\ Len(HeldRows(dbAtCall, FILES[1].table_name, year)) >= 2
    /\ HeldRows(dbAtCall, FILES[1].table_name, year) = FreshRows(FILES[1].kind)

\* C2: with refresh_type = "last" the selection is the one year "2024" and
\* the yearly load is called once, with "2024".
C2_LastSelectsMaxYear ==
    (refresh_type = "last" /\ pc # "idle") =>
        /\ IterLen(years_to_update) = 1
        /\ IterItem(years_to_update, 1) = Y2024
        /\ \A i \in 1..Len(calls) : calls[i] = Y2024
        /\ Len(calls) <= 1
        /\ (pc = "done" => calls = <<Y2024>>)

\* C3: with refresh_type = "custom" and a non-empty list, the yearly load is
\* called only with supported years of the list, each at most once, no
\* error is raised for the unsupported ones, and a run that returns has
\* processed exactly the supported years of the list.
C3_CustomSelection ==
    (refresh_type = "custom" /\ pc # "idle" /\ ~custom_years.isNone
        /\ custom_years.list # << >>) =>
        /\ Range(calls) \subseteq (Range(custom_years.list) \cap SupportedYears)
        /\ Cardinality(Range(calls)) = Len(calls)
        /\ error \notin {"ValueError", "KeyError"}
        /\ (pc = "done" =>
                Range(calls) = Range(custom_years.list) \cap SupportedYears)

\* C3 witness: a list naming an unsupported year and a supported one has
\* been processed, the supported one alone.
C3_Witness ==
    /\ refresh_type = "custom"
    /\ pc = "done"
    /\ Y1999 \in Range(custom_years.list)
    /\ calls = <<Y2024>>

\* C4: with refresh_type = "custom" and custom_years empty or None the call
\* raises ValueError with no year processed and the database and the cache
\* as they were.
C4_EmptyCustomRaises ==
    [][ /\ (pc = "idle" /\ pc' # "idle" /\ refresh_type' = "custom"
              /\ (custom_years'.isNone \/ custom_years'.list = << >>)) =>
                (/\ pc' = "failed"
                 /\ error' = "ValueError"
                 /\ calls' = << >>
                 /\ UNCHANGED <<db, zips, dirs>>)
        /\ (pc = "failed" /\ error = "ValueError") =>
                (pc' = "idle" /\ UNCHANGED <<db, zips, dirs>>) ]_vars

\* C4 witness: the call with an empty list has raised, on a database that
\* holds tables.
C4_Witness ==
    /\ pc = "failed"
    /\ error = "ValueError"
    /\ ~custom_years.isNone
    /\ \A t \in TableNames : db[t].exists

\* C5: when the folder of year Y lacks DIS_RESULT_Y.txt, the load of that
\* file raises, sise_resultats is not created if it was absent and gains
\* no row if it existed.
C5_MissingResultats ==
    [][ (/\ pc = "load"
         /\ fileIdx <= Len(FILES)
         /\ FILES[fileIdx].kind = "resultats"
         /\ dirs[year].files["resultats"] = 0) =>
            (/\ pc' = "failed"
             /\ error' # "none"
             /\ db'["sise_resultats"].exists = db["sise_resultats"].exists
             /\ Range(db'["sise_resultats"].rows) \subseteq Range(db["sise_resultats"].rows)
             /\ Len(db'["sise_resultats"].rows) <= Len(db["sise_resultats"].rows)) ]_vars

\* C5 witness: the load of the resultats file has raised for want of the
\* file, the table holding rows of the year before the call.
C5_Witness ==
    /\ pc = "failed"
    /\ error = "IOException"
    /\ fileIdx = 3
    /\ HeldRows(dbAtCall, "sise_resultats", year) # << >>

\* C6: when the table does not exist, the load of a file of year Y creates
\* it with the columns of the file plus annee_prelevement and one row per
\* record, every row with annee_prelevement = Y as an integer.
C6_TableCreation ==
    \A i \in 1..Len(FILES) :
        (LoadedNow(i) /\ ~dbAtCall[FILES[i].table_name].exists) =>
            LET tab == db[FILES[i].table_name]
                f == dirs[year].files[FILES[i].kind]
            IN /\ tab.exists
               /\ Range(tab.columns) = Range(FileHeader(f)) \cup {"annee_prelevement"}
               /\ Len(tab.columns) = Len(FileHeader(f)) + 1
               /\ Len(tab.rows) = Len(FileRecords(f))
               /\ \A j \in 1..Len(tab.rows) :
                    /\ tab.rows[j].data = FileRecords(f)[j]
                    /\ tab.rows[j].annee_prelevement = YearNumber[year]

\* C6 witness: the three tables have been created by the load of a year.
C6_Witness ==
    /\ pc = "cleanup"
    /\ \A t \in TableNames : ~dbAtCall[t].exists /\ Len(db[t].rows) >= 2

StepOrder == <<"fetch", "extract", "communes", "prelevements", "resultats", "cleanup">>
StepsInOrder ==
    /\ Len(steps) <= Len(StepOrder)
    /\ steps = SubSeq(StepOrder, 1, Len(steps))
    /\ (pc = "cleanup" => Len(steps) = 5)
AllLoaded ==
    /\ \A t \in TableNames : db[t].exists
    /\ \A y \in CatalogYears : zips[y].state = "absent" /\ ~dirs[y].exists

\* C7 as stated: the steps of a year run in the order fetch, extract,
\* communes, prelevements, resultats, cleanup, and after a run that returns
\* the three tables exist and the cache holds no archive and no folder.
C7_OrderAndCleanup_AnyRun ==
    StepsInOrder /\ (pc = "done" => AllLoaded)

\* C7 amended: the same, for a run that returns after it processed at
\* least one year.
C7_OrderAndCleanup ==
    StepsInOrder /\ ((pc = "done" /\ calls # << >>) => AllLoaded)

\* C7 witness: a run of several years has returned.
C7_Witness ==
    /\ pc = "done"
    /\ Len(calls) >= 2
    /\ steps = StepOrder

\* C8: when the yearly load of a year raises, the exception leaves
\* process_sise_eaux_dataset, no further year is started and the years
\* completed before it in the run keep the rows they loaded.
C8_AbortKeepsCompleted ==
    [][ /\ (pc' = "failed") =>
              (/\ error' # "none"
               /\ \A i \in 1..(Len(calls') - 1) : \A t \in TableNames :
                    /\ latest'[calls'[i]].ok
                    /\ HeldRows(db', t, calls'[i]) = latest'[calls'[i]].rows[t]
                    /\ HeldRows(db', t, calls'[i]) # << >>)
        /\ (pc = "failed") =>
              (pc' = "idle" /\ calls' = << >> /\ UNCHANGED db) ]_vars

\* C8 witness: the load of a later year of a run has raised after it
\* changed the database, with years left in the list.
C8_Witness ==
    /\ pc = "failed"
    /\ Len(calls) >= 2
    /\ idx < IterLen(years_to_update)
    /\ error \in LoadErrors
    /\ fileIdx >= 2

C10_FailedReloadUnchanged ==
    (pc = "failed" /\ year \in CatalogYears) =>
        \A t \in TableNames :
            (HeldRows(dbAtCall, t, year) # << >>) =>
                HeldRows(db, t, year) = HeldRows(dbAtCall, t, year)

\* C10 amended: when the load of year Y raises, of the tables that held
\* rows of Y, those loaded before the failing step hold the rows of the new
\* file, the one whose load raised holds no row of Y, and the others hold
\* the same rows of Y as before the call.
C10_FailedReloadPartial ==
    (pc = "failed" /\ year \in CatalogYears) =>
        \A i \in 1..Len(FILES) :
            LET t == FILES[i].table_name IN
            (HeldRows(dbAtCall, t, year) # << >>) =>
                IF i < fileIdx
                  THEN HeldRows(db, t, year) = FreshRows(FILES[i].kind)
                ELSE IF i = fileIdx /\ error \in LoadErrors
                  THEN HeldRows(db, t, year) = << >>
                ELSE HeldRows(db, t, year) = HeldRows(dbAtCall, t, year)

\* C10 witness: the load of the second file has raised and the three
\* tables held rows of the year.
C10_Witness ==
    /\ pc = "failed"
    /\ error \in LoadErrors
    /\ fileIdx = 2
    /\ \A t \in TableNames : HeldRows(dbAtCall, t, year) # << >>
====
